---- MODULE Spec2Model ----
(***************************************************************************)
(* PF2e Kineticist Auras (scripts/module.js): the createItem / deleteItem  *)
(* hooks that mirror PF2e's "Effect: Kinetic Aura" items into cosmetic     *)
(* "Kinetic Aura: <Element>" tag items, run by every connected user of a   *)
(* Foundry session against one shared store of embedded items.             *)
(*                                                                         *)
(* Text is modelled as sequences of one-character strings, so that the     *)
(* lower-casing, the substring test and the gate regular expressions are   *)
(* computed, not assumed.                                                  *)
(***************************************************************************)
EXTENDS Integers, Sequences, FiniteSets, TLC

VARIABLES
    items,      \* actor -> sequence of embedded items (the shared store, in insertion order)
    isGM,       \* user -> game.user.isGM on that user's client
    notices,    \* hook calls the store has fired and not every client has run yet
    handled,    \* the users whose hook has already run for Head(notices)
    outbox,     \* user -> requests awaited by that user's hooks, not yet applied by the store
    nextId,     \* the id the store gives the next created item
    ops,        \* number of mutations made so far by the rules engine
    edge,       \* history: actor -> gates detectable at the most recent activation edge
    heal,       \* history: actor -> "failed" once the store has rejected a request for it,
                \*          "edge" from the activation edge that follows, "ok" otherwise
    last        \* history: what the most recent step did

vars == <<items, isGM, notices, handled, outbox, nextId, ops, edge, heal, last>>

----------------------------------------------------------------------------
\* Bounds of the model.

\* Mutations (adds and removes) the rules engine makes in one behaviour.
MaxOps == 4

\* Requests one user's hooks may have in flight at once.
MaxInFlight == 2

\* Items on the sheet of the actor whose gates are detected.
MaxLen == 3

Users == {"u1", "u2"}

Actors == {"a1", "a2", "a3"}

\* item.parent of an item that is not embedded in any actor
NoParent == "none"

\* actor.type
ActorType == [a \in Actors |-> IF a = "a2" THEN "npc" ELSE "character"]

\* the actors of the supported type
Characters == {a \in Actors : ActorType[a] = "character"}

\* the character the rules engine acts on in a session with one kineticist
Played == {"a1"}

----------------------------------------------------------------------------
\* Text.

UpperCase == <<"A", "B", "C", "D", "E", "F", "G", "H", "I", "J", "K", "L", "M", "N", "O", "P", "Q", "R", "S", "T", "U", "V", "W", "X", "Y", "Z">>

LowerCase == <<"a", "b", "c", "d", "e", "f", "g", "h", "i", "j", "k", "l", "m", "n", "o", "p", "q", "r", "s", "t", "u", "v", "w", "x", "y", "z">>

DigitsAndUnderscore == <<"0", "1", "2", "3", "4", "5", "6", "7", "8", "9", "_">>

WhiteSpace == {" "}

Range(s) == {s[i] : i \in 1..Len(s)}

\* String.prototype.toLowerCase, one character
ToLowerChar(c) ==
    IF \E i \in 1..Len(UpperCase) : UpperCase[i] = c
    THEN LowerCase[CHOOSE i \in 1..Len(UpperCase) : UpperCase[i] = c]
    ELSE c

\* String.prototype.toLowerCase
toLowerCase(s) == [i \in 1..Len(s) |-> ToLowerChar(s[i])]

\* the literal lit occurs in s starting at position i
MatchAt(s, i, lit) ==
    /\ i >= 1
    /\ i + Len(lit) - 1 <= Len(s)
    /\ \A j \in 1..Len(lit) : s[i + j - 1] = lit[j]

\* String.prototype.includes
includes(s, sub) == \E i \in 1..(Len(s) + 1) : MatchAt(s, i, sub)

\* \w at position i (false outside the string)
IsWordAt(s, i) ==
    /\ i >= 1
    /\ i <= Len(s)
    /\ s[i] \in Range(UpperCase) \cup Range(LowerCase) \cup Range(DigitsAndUnderscore)

\* \b between positions i-1 and i
WordBoundary(s, i) == IsWordAt(s, i - 1) # IsWordAt(s, i)

\* (^|\b) before position i
StartOrBoundary(s, i) == i = 1 \/ WordBoundary(s, i)

\* (\b|$) before position i
BoundaryOrEnd(s, i) == WordBoundary(s, i) \/ i = Len(s) + 1

\* the k characters of s from position i are all in class
RunOf(s, i, k, class) == \A j \in i..(i + k - 1) : j <= Len(s) /\ s[j] \in class

AuraPhrase == <<"k", "i", "n", "e", "t", "i", "c", " ", "a", "u", "r", "a">>

GateWord == <<"g", "a", "t", "e">>

\* (^|\b)<w>\s*gate(\b|$) finds a match in s (s already lower-cased: the /i flag)
WordThenGate(s, w) ==
    \E i \in 1..Len(s) : \E k \in 0..Len(s) :
        /\ StartOrBoundary(s, i)
        /\ MatchAt(s, i, w)
        /\ RunOf(s, i + Len(w), k, WhiteSpace)
        /\ MatchAt(s, i + Len(w) + k, GateWord)
        /\ BoundaryOrEnd(s, i + Len(w) + k + Len(GateWord))

\* gate[:\s]*<w> finds a match in s (s already lower-cased: the /i flag)
GateThenWord(s, w) ==
    \E i \in 1..Len(s) : \E k \in 0..Len(s) :
        /\ MatchAt(s, i, GateWord)
        /\ RunOf(s, i + Len(GateWord), k, WhiteSpace \cup {":"})
        /\ MatchAt(s, i + Len(GateWord) + k, w)

Air == <<"A", "i", "r">>

Earth == <<"E", "a", "r", "t", "h">>

Fire == <<"F", "i", "r", "e">>

Metal == <<"M", "e", "t", "a", "l">>

Water == <<"W", "a", "t", "e", "r">>

Wood == <<"W", "o", "o", "d">>

\* the six elements, in the order of GATE_MAP's keys
Elements == <<Air, Earth, Fire, Metal, Water, Wood>>

\* faulty variant: the patterns of Water and Wood know no synonym
GATE_MAP_NoSynonyms == <<
    [element |-> Air,   before |-> {toLowerCase(Air)},   after |-> toLowerCase(Air)],
    [element |-> Earth, before |-> {toLowerCase(Earth)}, after |-> toLowerCase(Earth)],
    [element |-> Fire,  before |-> {toLowerCase(Fire)},  after |-> toLowerCase(Fire)],
    [element |-> Metal, before |-> {toLowerCase(Metal)}, after |-> toLowerCase(Metal)],
    [element |-> Water, before |-> {toLowerCase(Water)}, after |-> toLowerCase(Water)],
    [element |-> Wood,  before |-> {toLowerCase(Wood)},  after |-> toLowerCase(Wood)] >>

\* GATE_MAP: per element, the words of its <word>\s*gate alternatives and the word of
\* its gate[:\s]*<word> alternative
GATE_MAP == <<
    [element |-> Air,   before |-> {toLowerCase(Air)},   after |-> toLowerCase(Air)],
    [element |-> Earth, before |-> {toLowerCase(Earth)}, after |-> toLowerCase(Earth)],
    [element |-> Fire,  before |-> {toLowerCase(Fire)},  after |-> toLowerCase(Fire)],
    [element |-> Metal, before |-> {toLowerCase(Metal)}, after |-> toLowerCase(Metal)],
    [element |-> Water, before |-> {toLowerCase(Water), <<"i", "c", "e">>}, after |-> toLowerCase(Water)],
    [element |-> Wood,  before |-> {toLowerCase(Wood), <<"p", "l", "a", "n", "t">>}, after |-> toLowerCase(Wood)] >>

\* rx.test(text) for one entry of GATE_MAP
rxTest(entry, text) ==
    LET s == toLowerCase(text)
    IN  \/ \E w \in entry.before : WordThenGate(s, w)
        \/ GateThenWord(s, entry.after)

----------------------------------------------------------------------------
\* What the rules engine (PF2e) puts on an actor.

\* PF2e's own aura effect
AuraEffect == [type |-> "effect", name |-> <<"E", "f", "f", "e", "c", "t", ":", " ", "K", "i", "n", "e", "t", "i", "c", " ", "A", "u", "r", "a">>]

\* an effect of the rules engine that bears the very name of a cosmetic tag
LookalikeEffect == [type |-> "effect", name |-> <<"K", "i", "n", "e", "t", "i", "c", " ", "A", "u", "r", "a", ":", " ", "F", "i", "r", "e">>]

\* an effect that has nothing to do with the aura
OtherEffect == [type |-> "effect", name |-> <<"E", "f", "f", "e", "c", "t", ":", " ", "B", "l", "e", "s", "s">>]

FireGate == [type |-> "classfeature", name |-> <<"F", "i", "r", "e", " ", "G", "a", "t", "e">>]

MetalGate == [type |-> "feat", name |-> <<"M", "e", "t", "a", "l", " ", "G", "a", "t", "e">>]

IceGate == [type |-> "feat", name |-> <<"I", "c", "e", " ", "G", "a", "t", "e">>]

\* a class feature without a name whose description is "Plant Gate"
PlantGate == [type |-> "classfeature", desc |-> <<"P", "l", "a", "n", "t", " ", "G", "a", "t", "e">>]

IceGates == [type |-> "feat", name |-> <<"I", "c", "e", " ", "G", "a", "t", "e", "s">>]

\* an item of another kind whose name reads like a gate
GateEffect == [type |-> "effect", name |-> <<"E", "a", "r", "t", "h", " ", "G", "a", "t", "e">>]

\* a feat that names one gate and describes another
TwoGates == [type |-> "feat", name |-> <<"M", "e", "t", "a", "l", " ", "G", "a", "t", "e">>, desc |-> <<"G", "a", "t", "e", ":", " ", "A", "i", "r">>]

\* a feat with neither name nor description
Unnamed == [type |-> "feat"]

\* a feat that has nothing to do with gates
PlainFeat == [type |-> "feat", name |-> <<"I", "m", "p", "u", "l", "s", "e">>, desc |-> <<>>]

\* the items a sheet is made of when gate detection is looked at
GateRecords == {FireGate, MetalGate, IceGate, PlantGate, IceGates, GateEffect, TwoGates, Unnamed, PlainFeat}

\* what the rules engine adds to an actor during play
RulesData == {AuraEffect, LookalikeEffect, OtherEffect, MetalGate}

MarkerPrefix == <<"K", "i", "n", "e", "t", "i", "c", " ", "A", "u", "r", "a", ":", " ">>

\* every text that an item of the model can carry as its name or description
Texts ==
    {<<>>} \cup {d.name : d \in {r \in RulesData \cup GateRecords : "name" \in DOMAIN r}}
           \cup {d.desc : d \in {r \in RulesData \cup GateRecords : "desc" \in DOMAIN r}}
           \cup {MarkerPrefix \o Elements[k] : k \in 1..Len(Elements)}

\* s.toLowerCase().includes("kinetic aura"), computed once per text
NamesAura == [s \in Texts |-> includes(toLowerCase(s), AuraPhrase)]

\* the entries of GATE_MAP whose rx.test(s) is true, computed once per text
GatesIn == [s \in Texts |-> {k \in 1..Len(GATE_MAP) : rxTest(GATE_MAP[k], s)}]

----------------------------------------------------------------------------
\* Items.  An item is a record with fields id and type, and optionally name, desc
\* (system.description.value) and flags (flags["pf2e-kineticist-auras"]).

\* item.name ?? ""
NameOf(i) == IF "name" \in DOMAIN i THEN i.name ELSE <<>>

\* item.system?.description?.value ?? ""
DescOf(i) == IF "desc" \in DOMAIN i THEN i.desc ELSE <<>>

\* i.flags?.[MODULE_ID]?.generatedByKineticAura === true
IsOurs(i) == "flags" \in DOMAIN i /\ i.flags.generatedByKineticAura = TRUE

\* (item.name ?? "").toLowerCase().includes("kinetic aura")
HasAuraName(i) == NamesAura[NameOf(i)]

\* faulty variant: found is an array, and a match is pushed onto it
RECURSIVE AddMatches_Push(_, _, _)
AddMatches_Push(found, item, k) ==
    IF k > Len(GATE_MAP) THEN found
    ELSE LET entry == GATE_MAP[k]
             hit == k \in GatesIn[NameOf(item)] \/ k \in GatesIn[DescOf(item)]
         IN  AddMatches_Push(IF hit THEN Append(found, entry.element) ELSE found,
                             item, k + 1)

\* the elements of GATE_MAP that one item adds to the Set found
RECURSIVE AddMatches(_, _, _)
AddMatches(found, item, k) ==
    IF k > Len(GATE_MAP) THEN found
    ELSE LET entry == GATE_MAP[k]
             hit == k \in GatesIn[NameOf(item)] \/ k \in GatesIn[DescOf(item)]
             isNew == \A j \in 1..Len(found) : found[j] # entry.element
         IN  AddMatches(IF hit /\ isNew THEN Append(found, entry.element) ELSE found,
                        item, k + 1)

\* faulty variant: items of every type are scanned
RECURSIVE ScanItems_AnyType(_, _)
ScanItems_AnyType(found, actorItems) ==
    IF actorItems = <<>> THEN found
    ELSE ScanItems_AnyType(AddMatches(found, Head(actorItems), 1), Tail(actorItems))

\* faulty variant: an item that has no name is passed over
RECURSIVE ScanItems_SkipsNameless(_, _)
ScanItems_SkipsNameless(found, actorItems) ==
    IF actorItems = <<>> THEN found
    ELSE LET item == Head(actorItems)
         IN  ScanItems_SkipsNameless(
                 IF item.type \in {"feat", "classfeature"} /\ "name" \in DOMAIN item
                 THEN AddMatches(found, item, 1)
                 ELSE found,
                 Tail(actorItems))

RECURSIVE ScanItems(_, _)
ScanItems(found, actorItems) ==
    IF actorItems = <<>> THEN found
    ELSE LET item == Head(actorItems)
         IN  ScanItems(IF item.type \in {"feat", "classfeature"}
                       THEN AddMatches(found, item, 1)
                       ELSE found,
                       Tail(actorItems))

\* getActorGates(actor): Array.from(found), the elements in the order the Set met them
getActorGates(actorItems) == ScanItems(<<>>, actorItems)

\* faulty variant: the tag carries a rule element
makeElementAuraEffect_WithRule(elementType) ==
    [ name  |-> MarkerPrefix \o elementType,
      type  |-> "effect",
      rules |-> << [key |-> "Aura"] >>,
      flags |-> [generatedByKineticAura |-> TRUE, element |-> elementType] ]

\* makeElementAuraEffect(elementType): the data of one cosmetic tag (no id yet)
makeElementAuraEffect(elementType) ==
    [ name  |-> MarkerPrefix \o elementType,
      type  |-> "effect",
      rules |-> <<>>,
      flags |-> [generatedByKineticAura |-> TRUE, element |-> elementType] ]

\* faulty variant: the hook never finds tags of its own on the actor
alreadyHasOurAuras_Never(actorItems) == FALSE

\* createItem: actor.items.some(i => i.type === "effect" && <ours>)
alreadyHasOurAuras(actorItems) ==
    \E k \in 1..Len(actorItems) :
        actorItems[k].type = "effect" /\ IsOurs(actorItems[k])

\* faulty variant: the removal hook does not look for the auras that remain
stillHasRealAura_Never(actorItems) == FALSE

\* faulty variant: the scan counts the cosmetic tags as auras (no check of the flag)
stillHasRealAura_CountsOurs(actorItems) ==
    \E k \in 1..Len(actorItems) :
        actorItems[k].type = "effect" /\ HasAuraName(actorItems[k])

\* deleteItem: actor.items.some(i => effect, aura name, not ours)
stillHasRealAura(actorItems) ==
    \E k \in 1..Len(actorItems) :
        /\ actorItems[k].type = "effect"
        /\ HasAuraName(actorItems[k])
        /\ ~IsOurs(actorItems[k])

\* faulty variant: cleanup collects every effect, tagged or not
RECURSIVE OursOf_AllEffects(_)
OursOf_AllEffects(actorItems) ==
    IF actorItems = <<>> THEN <<>>
    ELSE (IF Head(actorItems).type = "effect"
          THEN <<Head(actorItems)>> ELSE <<>>) \o OursOf_AllEffects(Tail(actorItems))

\* cleanupModuleAuras: actor.items.filter(i => i.type === "effect" && <ours>)
RECURSIVE OursOf(_)
OursOf(actorItems) ==
    IF actorItems = <<>> THEN <<>>
    ELSE (IF Head(actorItems).type = "effect" /\ IsOurs(Head(actorItems))
          THEN <<Head(actorItems)>> ELSE <<>>) \o OursOf(Tail(actorItems))

\* cleanupModuleAuras(actor): the requests it awaits (none when ours is empty)
cleanupModuleAuras(actor, actorItems) ==
    LET ours == OursOf(actorItems)
    IN  IF ours = <<>> THEN <<>>
        ELSE << [op |-> "delete", actor |-> actor,
                 ids |-> [k \in 1..Len(ours) |-> ours[k].id]] >>

\* faulty variant: the hooks do not look at actor.type
PassesFilters_AnyActorType(u, item, parent) ==
    /\ isGM[u]
    /\ parent # NoParent
    /\ item.type = "effect"
    /\ HasAuraName(item)

\* faulty variant: the hooks do not look at game.user.isGM
PassesFilters_NoGMCheck(u, item, parent) ==
    /\ parent # NoParent
    /\ ActorType[parent] = "character"
    /\ item.type = "effect"
    /\ HasAuraName(item)

\* the guards shared by both hooks: GM client, parent is a character, effect item
\* whose name holds the aura phrase
PassesFilters(u, item, parent) ==
    /\ isGM[u]
    /\ parent # NoParent
    /\ ActorType[parent] = "character"
    /\ item.type = "effect"
    /\ HasAuraName(item)

\* faulty variant: the hook creates its tags whether or not some are already there
createItemHook_NoSkip(u, item, parent) ==
    IF ~PassesFilters(u, item, parent) THEN <<>>
    ELSE LET elements == getActorGates(items[parent])
         IN  IF elements = <<>> THEN <<>>
             ELSE << [op |-> "create", actor |-> parent,
                      data |-> [k \in 1..Len(elements) |->
                                    makeElementAuraEffect(elements[k])]] >>

\* faulty variant: the hook sends its create request even when no gate was found
createItemHook_NoEmptyCheck(u, item, parent) ==
    IF ~PassesFilters(u, item, parent) THEN <<>>
    ELSE IF alreadyHasOurAuras(items[parent]) THEN <<>>
    ELSE LET elements == getActorGates(items[parent])
         IN  << [op |-> "create", actor |-> parent,
                 data |-> [k \in 1..Len(elements) |->
                               makeElementAuraEffect(elements[k])]] >>

\* faulty variant: the gates are detected on the items of all actors together
createItemHook_EveryActorsGates(u, item, parent) ==
    IF ~PassesFilters(u, item, parent) THEN <<>>
    ELSE IF alreadyHasOurAuras(items[parent]) THEN <<>>
    ELSE LET elements == getActorGates(items["a1"] \o items["a2"] \o items["a3"])
         IN  IF elements = <<>> THEN <<>>
             ELSE << [op |-> "create", actor |-> parent,
                      data |-> [k \in 1..Len(elements) |->
                                    makeElementAuraEffect(elements[k])]] >>

\* Hooks.on("createItem"): the requests the hook awaits, on user u's client
createItemHook(u, item, parent) ==
    IF ~PassesFilters(u, item, parent) THEN <<>>
    ELSE IF alreadyHasOurAuras(items[parent]) THEN <<>>
    ELSE LET elements == getActorGates(items[parent])
         IN  IF elements = <<>> THEN <<>>
             ELSE << [op |-> "create", actor |-> parent,
                      data |-> [k \in 1..Len(elements) |->
                                    makeElementAuraEffect(elements[k])]] >>

\* Hooks.on("deleteItem"): the requests the hook awaits, on user u's client
deleteItemHook(u, item, parent) ==
    IF ~PassesFilters(u, item, parent) THEN <<>>
    ELSE IF stillHasRealAura(items[parent]) THEN <<>>
    ELSE cleanupModuleAuras(parent, items[parent])

----------------------------------------------------------------------------
\* The session's actors at the start.

\* the capability records an actor may start with
Sheets == { <<>>, <<FireGate>>, <<FireGate, MetalGate>> }

\* the longest starting sheet
MaxSheet == CHOOSE n \in 0..8 : (\A s \in Sheets : Len(s) <= n) /\ (\E s \in Sheets : Len(s) = n)

WithId(data, id) == [id |-> id] @@ data

\* an activation record in the claims' sense: an aura-named effect of the rules engine
IsActivationRecord(i) == i.type = "effect" /\ HasAuraName(i) /\ ~IsOurs(i)

HasActivation(actorItems) ==
    \E k \in 1..Len(actorItems) : IsActivationRecord(actorItems[k])

Remove(s, k) == SubSeq(s, 1, k - 1) \o SubSeq(s, k + 1, Len(s))

RECURSIVE WithoutIds(_, _)
WithoutIds(s, ids) ==
    IF s = <<>> THEN <<>>
    ELSE (IF Head(s).id \in ids THEN <<>> ELSE <<Head(s)>>) \o WithoutIds(Tail(s), ids)

RECURSIVE WithIds(_, _)
WithIds(s, ids) ==
    IF s = <<>> THEN <<>>
    ELSE (IF Head(s).id \in ids THEN <<Head(s)>> ELSE <<>>) \o WithIds(Tail(s), ids)

ItemIds(s) == {s[k].id : k \in 1..Len(s)}

Quiescent == notices = <<>> /\ \A u \in Users : outbox[u] = <<>>

NoItem == [type |-> "none"]

\* history of a step of the rules engine or of the store
Did(op, user, actor) ==
    [op |-> op, user |-> user, actor |-> actor, item |-> NoItem, sent |-> <<>>,
     writers |-> {}]

\* history of a hook run: the item it was called with, the requests it sent, and the
\* users whose hook has sent requests for this same hook call so far
Hooked(op, u, n, sent) ==
    [op |-> op, user |-> u, actor |-> n.parent, item |-> n.item, sent |-> sent,
     writers |-> (IF handled = {} THEN {} ELSE last.writers)
                     \cup (IF sent = <<>> THEN {} ELSE {u})]

\* more items than an actor can come to hold
MaxItems == MaxSheet + MaxOps * (1 + Cardinality(Users) * Len(Elements))

----------------------------------------------------------------------------
\* The session.

\* the sheet of an actor that is not a character: a creature with a gate feature
NpcSheet == <<FireGate>>

\* the sheets of the actors the session does not start with a sheet of its choice: the
\* creature's, and a second kineticist's, whose gate is another one
OtherSheet == [a \in Actors \ Played |->
                  IF ActorType[a] = "character" THEN <<MetalGate>> ELSE NpcSheet]

SheetsInit ==
    /\ \E sheet \in [Played -> Sheets] :
          items = [a \in Actors |->
                      LET s == IF a \in Played THEN sheet[a] ELSE OtherSheet[a]
                      IN  [k \in 1..Len(s) |-> WithId(s[k], k)]]
    /\ notices = <<>>
    /\ handled = {}
    /\ outbox = [u \in Users |-> <<>>]
    /\ nextId = MaxSheet + 1
    /\ ops = 0
    /\ edge = [a \in Actors |-> <<>>]
    /\ heal = [a \in Actors |-> "ok"]
    /\ last = Did("init", "none", NoParent)

\* a session with exactly one GM connected (the session authority) and one player
Init == SheetsInit /\ isGM = [u \in Users |-> u = "u1"]

\* any mix of GMs and players connected (the users are interchangeable: u2 is a GM
\* only if u1 is)
InitSession == SheetsInit /\ isGM \in {f \in [Users -> BOOLEAN] : f["u2"] => f["u1"]}

CanMutate ==
    /\ ops < MaxOps
    /\ notices = <<>>
    /\ \A u \in Users : Len(outbox[u]) < MaxInFlight

\* the rules engine creates an item on actor a; the store fires createItem everywhere
RulesEngineAdd(a, data) ==
    /\ CanMutate
    /\ LET item == WithId(data, nextId)
           isEdge == /\ a \in Characters
                     /\ IsActivationRecord(item)
                     /\ ~HasActivation(items[a])
       IN  /\ items' = [items EXCEPT ![a] = Append(@, item)]
           /\ notices' = << [hook |-> "createItem", item |-> item, parent |-> a] >>
           /\ edge' = IF isEdge THEN [edge EXCEPT ![a] = getActorGates(items[a])]
                      ELSE edge
           /\ heal' = IF isEdge
                      THEN [heal EXCEPT ![a] = IF @ = "failed" THEN "edge" ELSE "ok"]
                      ELSE heal
    /\ nextId' = nextId + 1
    /\ ops' = ops + 1
    /\ last' = Did("add", "rules", a)
    /\ UNCHANGED <<isGM, handled, outbox>>

\* the rules engine deletes one of its items from actor a; the store fires deleteItem
RulesEngineRemove(a, k) ==
    /\ CanMutate
    /\ k \in 1..Len(items[a])
    /\ ~IsOurs(items[a][k])
    /\ items' = [items EXCEPT ![a] = Remove(@, k)]
    /\ notices' = << [hook |-> "deleteItem", item |-> items[a][k], parent |-> a] >>
    /\ ops' = ops + 1
    /\ last' = Did("remove", "rules", a)
    /\ UNCHANGED <<isGM, handled, outbox, nextId, edge, heal>>

\* an item that is embedded in no actor (a world item) is created or deleted; the store
\* fires the hook with item.parent null
WorldItemEvent(hook, data) ==
    /\ CanMutate
    /\ notices' = << [hook |-> hook, item |-> WithId(data, nextId), parent |-> NoParent] >>
    /\ nextId' = nextId + 1
    /\ ops' = ops + 1
    /\ last' = Did("world", "rules", NoParent)
    /\ UNCHANGED <<items, isGM, handled, outbox, edge, heal>>

\* user u's client has run its hook for Head(notices); once all have, the call is over
Ran(u) ==
    IF handled \cup {u} = Users
    THEN notices' = Tail(notices) /\ handled' = {}
    ELSE notices' = notices /\ handled' = handled \cup {u}

\* Hooks.on("createItem") runs on user u's client, up to its await
createItem(u) ==
    /\ notices # <<>>
    /\ Head(notices).hook = "createItem"
    /\ u \notin handled
    /\ LET n == Head(notices)
           sent == createItemHook(u, n.item, n.parent)
       IN  /\ outbox' = [outbox EXCEPT ![u] = @ \o sent]
           /\ last' = Hooked("createItem", u, n, sent)
    /\ Ran(u)
    /\ UNCHANGED <<items, isGM, nextId, ops, edge, heal>>

\* Hooks.on("deleteItem") runs on user u's client, up to its await
deleteItem(u) ==
    /\ notices # <<>>
    /\ Head(notices).hook = "deleteItem"
    /\ u \notin handled
    /\ LET n == Head(notices)
           sent == deleteItemHook(u, n.item, n.parent)
       IN  /\ outbox' = [outbox EXCEPT ![u] = @ \o sent]
           /\ last' = Hooked("deleteItem", u, n, sent)
    /\ Ran(u)
    /\ UNCHANGED <<items, isGM, nextId, ops, edge, heal>>

\* actor.createEmbeddedDocuments("Item", data) of user u reaches the store
StoreCreate(u) ==
    /\ notices = <<>>
    /\ outbox[u] # <<>>
    /\ Head(outbox[u]).op = "create"
    /\ LET req == Head(outbox[u])
           made == [k \in 1..Len(req.data) |-> WithId(req.data[k], nextId + k - 1)]
       IN  /\ items' = [items EXCEPT ![req.actor] = @ \o made]
           /\ notices' = [k \in 1..Len(made) |->
                             [hook |-> "createItem", item |-> made[k], parent |-> req.actor]]
           /\ nextId' = nextId + Len(made)
           /\ last' = Did("created", u, req.actor)
    /\ outbox' = [outbox EXCEPT ![u] = Tail(@)]
    /\ UNCHANGED <<isGM, handled, ops, edge, heal>>

\* actor.deleteEmbeddedDocuments("Item", ids) of user u reaches the store
StoreDelete(u) ==
    /\ notices = <<>>
    /\ outbox[u] # <<>>
    /\ Head(outbox[u]).op = "delete"
    /\ LET req == Head(outbox[u])
           ids == Range(req.ids)
           gone == WithIds(items[req.actor], ids)
       IN  /\ items' = [items EXCEPT ![req.actor] = WithoutIds(@, ids)]
           /\ notices' = [k \in 1..Len(gone) |->
                             [hook |-> "deleteItem", item |-> gone[k], parent |-> req.actor]]
           /\ last' = Did("deleted", u, req.actor)
    /\ outbox' = [outbox EXCEPT ![u] = Tail(@)]
    /\ UNCHANGED <<isGM, handled, nextId, ops, edge, heal>>

\* the store refuses a delete that names an item which no longer exists
StoreReject(u) ==
    /\ notices = <<>>
    /\ outbox[u] # <<>>
    /\ Head(outbox[u]).op = "delete"
    /\ ~(Range(Head(outbox[u]).ids) \subseteq ItemIds(items[Head(outbox[u]).actor]))
    /\ outbox' = [outbox EXCEPT ![u] = Tail(@)]
    /\ last' = Did("rejected", u, Head(outbox[u]).actor)
    /\ UNCHANGED <<items, isGM, notices, handled, nextId, ops, edge, heal>>

\* the store rejects the request at the head of user u's queue: nothing is applied, and
\* the hook that awaited it ends there
StoreFail(u) ==
    /\ notices = <<>>
    /\ outbox[u] # <<>>
    /\ outbox' = [outbox EXCEPT ![u] = Tail(@)]
    /\ heal' = [heal EXCEPT ![Head(outbox[u]).actor] = "failed"]
    /\ last' = Did("failed", u, Head(outbox[u]).actor)
    /\ UNCHANGED <<items, isGM, notices, handled, nextId, ops, edge>>

\* the rules engine acts while no hook is running and no request is pending
SettledAdd(a, data) == Quiescent /\ RulesEngineAdd(a, data)

SettledRemove(a, k) == Quiescent /\ RulesEngineRemove(a, k)

Next ==
    \/ \E a \in Played : \E data \in RulesData : RulesEngineAdd(a, data)
    \/ \E a \in Played : \E k \in 1..MaxItems : RulesEngineRemove(a, k)
    \/ \E u \in Users : createItem(u)
    \/ \E u \in Users : deleteItem(u)
    \/ \E u \in Users : StoreCreate(u)
    \/ \E u \in Users : StoreDelete(u)
    \/ \E u \in Users : StoreReject(u)

Spec == Init /\ [][Next]_vars

SpecSession == InitSession /\ [][Next]_vars

\* a session whose reactions never overlap and whose store may reject any request
NextFaulty ==
    \/ \E a \in Played : \E data \in RulesData : SettledAdd(a, data)
    \/ \E a \in Played : \E k \in 1..MaxItems : SettledRemove(a, k)
    \/ \E u \in Users : createItem(u)
    \/ \E u \in Users : deleteItem(u)
    \/ \E u \in Users : StoreCreate(u)
    \/ \E u \in Users : StoreDelete(u)
    \/ \E u \in Users : StoreFail(u)

SpecFaulty == Init /\ [][NextFaulty]_vars

\* the rules engine switches the aura of a character on
AuraOn(a) == RulesEngineAdd(a, AuraEffect)

\* the rules engine switches off the aura effect that is item k of a character
AuraOff(a, k) ==
    /\ k \in 1..Len(items[a])
    /\ IsActivationRecord(items[a][k])
    /\ RulesEngineRemove(a, k)

\* a session in which two kineticists have their auras switched on and off, each in its
\* own time
NextTwo ==
    \/ \E a \in Characters : AuraOn(a)
    \/ \E a \in Characters : \E k \in 1..MaxItems : AuraOff(a, k)
    \/ \E u \in Users : createItem(u)
    \/ \E u \in Users : deleteItem(u)
    \/ \E u \in Users : StoreCreate(u)
    \/ \E u \in Users : StoreDelete(u)
    \/ \E u \in Users : StoreReject(u)

SpecTwo == Init /\ [][NextTwo]_vars

\* the sheets of at most MaxLen items made of GateRecords
GateSheets == UNION {[1..n -> GateRecords] : n \in 0..MaxLen}

\* a session that starts with a character of any such sheet
InitGates ==
    /\ \E sheet \in [Played -> GateSheets] :
          items = [a \in Actors |->
                      LET s == IF a \in Played THEN sheet[a] ELSE OtherSheet[a]
                      IN  [k \in 1..Len(s) |-> WithId(s[k], k)]]
    /\ isGM = [u \in Users |-> u = "u1"]
    /\ notices = <<>>
    /\ handled = {}
    /\ outbox = [u \in Users |-> <<>>]
    /\ nextId = MaxLen + 1
    /\ ops = 0
    /\ edge = [a \in Actors |-> <<>>]
    /\ heal = [a \in Actors |-> "ok"]
    /\ last = Did("init", "none", NoParent)

\* getActorGates(actor) is called; found is what it returns, prev what the call before
\* it returned when that one was for the same actor
DetectGates(a) ==
    /\ Quiescent
    /\ last' = [ op |-> "getActorGates", user |-> "none", actor |-> a, item |-> NoItem,
                 sent |-> <<>>, writers |-> {},
                 found |-> getActorGates(items[a]),
                 prev |-> IF last.op = "getActorGates" /\ last.actor = a
                          THEN <<last.found>> ELSE <<>> ]
    /\ UNCHANGED <<items, isGM, notices, handled, outbox, nextId, ops, edge, heal>>

\* the rules engine gives the actor its first aura effect of the session
FirstAura(a) == ops = 0 /\ RulesEngineAdd(a, AuraEffect)

\* gates are detected, and the aura is activated once
NextGates ==
    \/ \E a \in Played : DetectGates(a)
    \/ \E a \in Played : FirstAura(a)
    \/ \E u \in Users : createItem(u)
    \/ \E u \in Users : StoreCreate(u)

SpecGates == InitGates /\ [][NextGates]_vars

\* a session in which the rules engine also gives an aura to a creature that is not a
\* character and takes it away, and in which world items come and go
NextWorld ==
    \/ Next
    \/ \E a \in Actors \ Characters : RulesEngineAdd(a, AuraEffect)
    \/ \E a \in Actors \ Characters : \E k \in 1..MaxItems : RulesEngineRemove(a, k)
    \/ \E hook \in {"createItem", "deleteItem"} : WorldItemEvent(hook, AuraEffect)

SpecWorld == Init /\ [][NextWorld]_vars

----------------------------------------------------------------------------
\* Vocabulary of the claims.

\* the records on an actor that carry the ownership tag, and those that do not
Markers(actorItems) == SelectSeq(actorItems, IsOurs)

Untagged(actorItems) == SelectSeq(actorItems, LAMBDA i : ~IsOurs(i))

\* the elements of the cosmetic tags on an actor
MarkerElements(actorItems) ==
    {Markers(actorItems)[k].flags.element : k \in 1..Len(Markers(actorItems))}

\* the tags are exactly one per element of gates
OnePerGate(actorItems, gates) ==
    /\ Len(Markers(actorItems)) = Len(gates)
    /\ MarkerElements(actorItems) = Range(gates)

\* the record is on a character and is an effect whose name holds the aura phrase
HookPasses(item, actor) ==
    /\ actor \in Actors
    /\ ActorType[actor] = "character"
    /\ item.type = "effect"
    /\ HasAuraName(item)

\* the last step was the hook op, run on a GM's client for an activation record
AuthorityRan(h, op) ==
    /\ h.op = op
    /\ isGM[h.user]
    /\ HookPasses(h.item, h.actor)
    /\ IsActivationRecord(h.item)

\* the session authority of a session that has exactly one GM
Authority == CHOOSE u \in Users : isGM[u]

----------------------------------------------------------------------------
\* C1: at quiescence the elements of the cosmetic tags on an actor are the gates
\* detected at the most recent activation edge (no activation record -> at least
\* one), and there is no cosmetic tag on an actor without an activation record.
C1_MarkersTrackActivation ==
    Quiescent =>
        \A a \in Actors :
            MarkerElements(items[a]) =
                IF HasActivation(items[a]) THEN Range(edge[a]) ELSE {}

----------------------------------------------------------------------------
\* C2: while another activation record remains on the actor, the removal reaction
\* writes nothing and the records are as they were; when the removed record was the
\* last one and tags are present, it requests the deletion of exactly the tags; the
\* decision is taken by scanning the records now on the actor.
C2_RemovalRescans ==
    [][ AuthorityRan(last', "deleteItem") =>
          LET a == last'.actor
              u == last'.user
          IN  /\ items' = items
              /\ IF HasActivation(items[a]) THEN outbox' = outbox
                 ELSE Markers(items[a]) # <<>> =>
                        /\ Len(outbox'[u]) = Len(outbox[u]) + 1
                        /\ LET req == outbox'[u][Len(outbox'[u])]
                           IN  /\ req.op = "delete"
                               /\ req.actor = a
                               /\ Range(req.ids) = ItemIds(Markers(items[a]))
      ]_vars

\* a removal that was not the last one has left the tags in place
C2_Witness ==
    /\ AuthorityRan(last, "deleteItem")
    /\ HasActivation(items[last.actor])
    /\ Markers(items[last.actor]) # <<>>
    /\ last.sent = <<>>

\* C3: when no activation record is left on the actor and only the cosmetic tags
\* (whose names hold the aura phrase too) remain, the removal reaction's scan finds no
\* real aura and requests the deletion of the tags.
C3_ScanIgnoresOwnMarkers ==
    ( /\ last.op = "deleteItem"
      /\ isGM[last.user]
      /\ HookPasses(last.item, last.actor)
      /\ ~HasActivation(items[last.actor])
      /\ Markers(items[last.actor]) # <<>> )
    => /\ last.sent # <<>>
       /\ \A k \in 1..Len(last.sent) :
             /\ last.sent[k].op = "delete"
             /\ Range(last.sent[k].ids) = ItemIds(Markers(items[last.actor]))

\* the last activation record has gone while tags were on the actor
C3_Witness ==
    /\ AuthorityRan(last, "deleteItem")
    /\ ~HasActivation(items[last.actor])
    /\ \E k \in 1..Len(items[last.actor]) :
          IsOurs(items[last.actor][k]) /\ HasAuraName(items[last.actor][k])
    /\ last.sent # <<>>

C5_SecondAddKeepsMarkers ==
    [][ ( /\ AuthorityRan(last', "createItem")
          /\ Markers(items[last'.actor]) # <<>> )
        => /\ Markers(items'[last'.actor]) = Markers(items[last'.actor])
           /\ outbox' = outbox
      ]_vars

\* a second activation record was added while the tags of the first, one per gate,
\* were present
C5_Witness ==
    /\ AuthorityRan(last, "createItem")
    /\ OnePerGate(items[last.actor], getActorGates(items[last.actor]))
    /\ Markers(items[last.actor]) # <<>>
    /\ Len(SelectSeq(items[last.actor], IsActivationRecord)) = 2
    /\ Quiescent

\* C6: no step of a hook or of a request of a hook creates, changes or deletes a record
\* without the ownership tag, and every request names tagged records only.
C6_OnlyOwnRecordsWritten ==
    [][ last'.user # "rules" =>
          /\ \A a \in Actors : Untagged(items'[a]) = Untagged(items[a])
          /\ \A k \in 1..Len(last'.sent) :
                LET req == last'.sent[k]
                IN  IF req.op = "delete"
                    THEN Range(req.ids) \subseteq ItemIds(Markers(items[req.actor]))
                    ELSE \A j \in 1..Len(req.data) : IsOurs(req.data[j])
      ]_vars

\* a teardown has deleted tags and an untagged record named like a tag is still there
C6_Witness ==
    /\ last.op = "deleted"
    /\ notices # <<>>
    /\ \E k \in 1..Len(items[last.actor]) :
          /\ ~IsOurs(items[last.actor][k])
          /\ NameOf(items[last.actor][k]) = MarkerPrefix \o Fire

\* C7: once the deletion requested by cleanupModuleAuras has been applied, the actor
\* holds no tagged record; and when the actor holds none, the removal reaction sends
\* no deletion.
C7_DeactivateLeavesNoMarker ==
    /\ last.op = "deleted" => Markers(items[last.actor]) = <<>>
    /\ ( /\ last.op = "deleteItem"
         /\ last.actor \in Actors
         /\ Markers(items[last.actor]) = <<>> ) => last.sent = <<>>

\* C8: an add reaction on an actor whose capability records yield no gate writes
\* nothing and sends nothing.
C8_EmptyGatesNoOp ==
    [][ ( /\ last'.op = "createItem"
          /\ isGM[last'.user]
          /\ HookPasses(last'.item, last'.actor)
          /\ getActorGates(items[last'.actor]) = <<>> )
        => items' = items /\ outbox' = outbox
      ]_vars

\* an activation record was added to an actor without gates and without tags
C8_Witness ==
    /\ AuthorityRan(last, "createItem")
    /\ getActorGates(items[last.actor]) = <<>>
    /\ Markers(items[last.actor]) = <<>>
    /\ last.sent = <<>>

\* C9: a hook run on the client of a user who is not a GM sends no request and changes
\* no record.
C9_NonAuthorityNoOp ==
    [][ ( /\ last'.op \in {"createItem", "deleteItem"}
          /\ ~isGM[last'.user] )
        => items' = items /\ outbox' = outbox
      ]_vars

\* a player's client saw an activation record arrive on an actor with gates and no tags
C9_Witness ==
    /\ last.op = "createItem"
    /\ ~isGM[last.user]
    /\ HookPasses(last.item, last.actor)
    /\ IsActivationRecord(last.item)
    /\ getActorGates(items[last.actor]) # <<>>
    /\ Markers(items[last.actor]) = <<>>
    /\ last.sent = <<>>

\* C10: for one hook call, at most one user's client sends requests.
C10_SingleWriter == Cardinality(last.writers) <= 1

----------------------------------------------------------------------------
\* the record is of no concern to the hooks: its name lacks the aura phrase, or it has
\* no parent, or its parent is not a character
Irrelevant(item, actor) ==
    \/ ~HasAuraName(item)
    \/ actor = NoParent
    \/ ActorType[actor] # "character"

\* C11: a hook run for a record whose name lacks the aura phrase, or that has no
\* parent, or whose parent is not a character, sends no request and changes no record,
\* when the record was added and when it was removed alike.
C11_IrrelevantRecordNoOp ==
    [][ ( /\ last'.op \in {"createItem", "deleteItem"}
          /\ Irrelevant(last'.item, last'.actor) )
        => items' = items /\ outbox' = outbox
      ]_vars

\* a GM's client saw an aura effect arrive on a creature that has a gate feature and is
\* not a character
C11_Witness ==
    /\ last.op = "createItem"
    /\ isGM[last.user]
    /\ last.actor \in Actors \ Characters
    /\ IsActivationRecord(last.item)
    /\ getActorGates(items[last.actor]) # <<>>
    /\ Markers(items[last.actor]) = <<>>
    /\ last.sent = <<>>

----------------------------------------------------------------------------
\* the record has the shape of a cosmetic tag: an effect named "Kinetic Aura: <Element>"
\* for one of the six elements, flagged as the module's with that element, without rules
WellFormedMarker(m) ==
    \E k \in 1..Len(Elements) :
        /\ m.name = MarkerPrefix \o Elements[k]
        /\ m.type = "effect"
        /\ m.flags.generatedByKineticAura = TRUE
        /\ m.flags.element = Elements[k]
        /\ m.rules = <<>>

\* the data of a create request are well-formed tags of pairwise different elements
OnePerElement(data) ==
    /\ \A k \in 1..Len(data) : WellFormedMarker(data[k])
    /\ \A j, k \in 1..Len(data) : data[j].flags.element = data[k].flags.element => j = k

\* C12: every tag on an actor and every tag a pending request asks for is an effect
\* named "Kinetic Aura: <Element>" for one of the six elements, flagged as the module's
\* with that very element, with an empty list of rules; a request asks for one tag per
\* element, and the request a hook sends asks for the gates detected on the actor.
C12_MarkerShape ==
    /\ \A a \in Actors : \A k \in 1..Len(items[a]) :
           IsOurs(items[a][k]) => WellFormedMarker(items[a][k])
    /\ \A u \in Users : \A k \in 1..Len(outbox[u]) :
           outbox[u][k].op = "create" => OnePerElement(outbox[u][k].data)
    /\ \A k \in 1..Len(last.sent) :
           last.sent[k].op = "create" =>
               [j \in 1..Len(last.sent[k].data) |-> last.sent[k].data[j].flags.element]
                   = getActorGates(items[last.actor])

\* the tags of an actor with two gates have been created and nothing is pending
C12_Witness ==
    /\ Quiescent
    /\ \E a \in Characters :
          /\ Len(Markers(items[a])) = 2
          /\ MarkerElements(items[a]) = {Fire, Metal}

----------------------------------------------------------------------------
\* the record is of a capability kind
IsCapability(i) == i.type \in {"feat", "classfeature"}

\* the elements whose pattern matches the name or the description of a capability
\* record among actorItems
MatchedElements(actorItems) ==
    { Elements[k] : k \in { e \in 1..Len(Elements) :
          \E j \in 1..Len(actorItems) :
              /\ IsCapability(actorItems[j])
              /\ \/ e \in GatesIn[NameOf(actorItems[j])]
                 \/ e \in GatesIn[DescOf(actorItems[j])] } }

\* the names of the tags on an actor
MarkerNames(actorItems) == {Markers(actorItems)[k].name : k \in 1..Len(Markers(actorItems))}

\* C13: getActorGates returns exactly the elements whose pattern matches the name or
\* the description of a feat or class feature of the actor, items of other types adding
\* nothing; with "Fire Gate" and "Metal Gate" as the capability records it returns
\* exactly Fire and Metal, and the activation then creates exactly the two tags
\* "Kinetic Aura: Fire" and "Kinetic Aura: Metal".
C13_GateCompleteness ==
    /\ last.op = "getActorGates" =>
          /\ Range(last.found) = MatchedElements(items[last.actor])
          /\ ( {<<i.type, NameOf(i), DescOf(i)>> :
                   i \in {j \in Range(items[last.actor]) : IsCapability(j)}}
                 = {<<FireGate.type, FireGate.name, <<>> >>,
                    <<MetalGate.type, MetalGate.name, <<>> >>} )
              => Range(last.found) = {Fire, Metal}
    /\ ( last.op = "created" /\ MatchedElements(items[last.actor]) = {Fire, Metal} ) =>
          /\ Len(Markers(items[last.actor])) = 2
          /\ MarkerNames(items[last.actor]) = {MarkerPrefix \o Fire, MarkerPrefix \o Metal}

\* the two tags of an actor that has "Fire Gate", "Metal Gate" and an effect named
\* like a gate have been created
C13_Witness ==
    /\ last.op = "created"
    /\ \E k \in 1..Len(items[last.actor]) :
          items[last.actor][k].type = "effect" /\ NameOf(items[last.actor][k]) = GateEffect.name
    /\ Len(Markers(items[last.actor])) = 2
    /\ MarkerNames(items[last.actor]) = {MarkerPrefix \o Fire, MarkerPrefix \o Metal}

----------------------------------------------------------------------------
\* the name or the description of the record contains the phrase as it is written
ContainsText(i, phrase) == includes(NameOf(i), phrase) \/ includes(DescOf(i), phrase)

\* text holds the phrase, in any letter case, as whole words: no letter, digit or
\* underscore stands right before it or right after it
HoldsWords(text, phrase) ==
    LET s == toLowerCase(text)
        w == toLowerCase(phrase)
    IN  \E i \in 1..Len(s) :
            /\ MatchAt(s, i, w)
            /\ ~IsWordAt(s, i - 1)
            /\ ~IsWordAt(s, i + Len(w))

\* the capability records among actorItems
Capabilities(actorItems) == {i \in Range(actorItems) : IsCapability(i)}

\* the only texts on the capability records are the phrase and the empty text, and the
\* phrase is there
OnlyText(actorItems, phrase) ==
    /\ \A i \in Capabilities(actorItems) :
          NameOf(i) \in {<<>>, phrase} /\ DescOf(i) \in {<<>>, phrase}
    /\ \E i \in Capabilities(actorItems) : phrase \in {NameOf(i), DescOf(i)}

\* C14 as claimed: a capability record whose name or description contains "Ice Gate"
\* puts Water into the result of getActorGates, one that contains "Plant Gate" puts
\* Wood into it, and these texts put no other element into it.
C14_SynonymContained ==
    last.op = "getActorGates" =>
        /\ \A i \in Capabilities(items[last.actor]) :
              /\ ContainsText(i, IceGate.name) => Water \in Range(last.found)
              /\ ContainsText(i, PlantGate.desc) => Wood \in Range(last.found)
        /\ OnlyText(items[last.actor], IceGate.name) => last.found = <<Water>>
        /\ OnlyText(items[last.actor], PlantGate.desc) => last.found = <<Wood>>

\* C14 as amended: a capability record whose name or description holds "ice gate" as
\* whole words, in any letter case, puts Water into the result of getActorGates, one
\* that holds "plant gate" so puts Wood into it, and these texts put no other element
\* into it.
C14_SynonymWholeWords ==
    last.op = "getActorGates" =>
        /\ \A i \in Capabilities(items[last.actor]) :
              /\ ( HoldsWords(NameOf(i), IceGate.name) \/ HoldsWords(DescOf(i), IceGate.name) )
                     => Water \in Range(last.found)
              /\ ( HoldsWords(NameOf(i), PlantGate.desc) \/ HoldsWords(DescOf(i), PlantGate.desc) )
                     => Wood \in Range(last.found)
        /\ OnlyText(items[last.actor], IceGate.name) => last.found = <<Water>>
        /\ OnlyText(items[last.actor], PlantGate.desc) => last.found = <<Wood>>

\* the gates of an actor with a feat named "Ice Gate" and a class feature described
\* "Plant Gate" were detected: Water and Wood
C14_Witness ==
    /\ last.op = "getActorGates"
    /\ \E i \in Capabilities(items[last.actor]) : NameOf(i) = IceGate.name
    /\ \E i \in Capabilities(items[last.actor]) : DescOf(i) = PlantGate.desc
    /\ last.found = <<Water, Wood>>

----------------------------------------------------------------------------
\* the same items with every missing name and description written out as empty text
Filled(actorItems) ==
    [k \in 1..Len(actorItems) |->
        [id |-> actorItems[k].id, type |-> actorItems[k].type,
         name |-> NameOf(actorItems[k]), desc |-> DescOf(actorItems[k])]]

\* C15: a call of getActorGates returns a list of elements whatever fields the
\* capability records lack: the result is what it would be were each missing name and
\* description the empty text, and it is empty when no capability record matches.
C15_DetectNeverFails ==
    last.op = "getActorGates" =>
        /\ Range(last.found) \subseteq Range(Elements)
        /\ last.found = getActorGates(Filled(items[last.actor]))
        /\ MatchedElements(items[last.actor]) = {} => last.found = <<>>

\* the gates of an actor were detected whose sheet holds a feat with neither name nor
\* description and a class feature with no name whose description names a gate
C15_Witness ==
    /\ last.op = "getActorGates"
    /\ \E i \in Capabilities(items[last.actor]) : DOMAIN i = {"id", "type"}
    /\ \E i \in Capabilities(items[last.actor]) :
          "name" \notin DOMAIN i /\ DescOf(i) = PlantGate.desc
    /\ last.found = <<Wood>>

----------------------------------------------------------------------------
\* C16: once every hook has run and every request has been applied, an actor that holds
\* an activation record holds exactly one tag per gate detectable on it now, and an
\* actor that holds none holds no tag, also after add and remove reactions overlapped.
C16_ConvergesAfterRaces ==
    Quiescent =>
        \A a \in Characters :
            IF HasActivation(items[a])
            THEN OnePerGate(items[a], getActorGates(items[a]))
            ELSE Markers(items[a]) = <<>>

----------------------------------------------------------------------------
\* C17: after the store has rejected a request for an actor, the next activation edge of
\* that actor ends, once its reaction has completed, with exactly one tag per gate
\* detected at that edge.
C17_NextEdgeHeals ==
    Quiescent =>
        \A a \in Characters :
            ( heal[a] = "edge" /\ HasActivation(items[a]) )
                => OnePerGate(items[a], edge[a])

----------------------------------------------------------------------------
\* C18: a hook called for the creation or the deletion of one of the module's own tags
\* sends no request and changes no record, so the writes end with the reactions to the
\* rules engine's own steps.
C18_NoFeedback ==
    [][ ( /\ last'.op \in {"createItem", "deleteItem"}
          /\ IsOurs(last'.item) )
        => items' = items /\ outbox' = outbox
      ]_vars

----------------------------------------------------------------------------
\* no element stands twice in the list
NoDuplicates(s) == \A j, k \in 1..Len(s) : s[j] = s[k] => j = k

----------------------------------------------------------------------------
\* C20: in every state an actor holds at most one tag per element, also while two add
\* reactions for it are in flight at once.
C20_OneMarkerPerElement ==
    \A a \in Actors :
        \A j, k \in 1..Len(Markers(items[a])) :
            Markers(items[a])[j].flags.element = Markers(items[a])[k].flags.element => j = k

----------------------------------------------------------------------------
\* C21: a hook run for a record of an actor sends requests for that actor only and
\* changes no record; a request applied by the store changes the records of its actor
\* only; and every tag on an actor is for a gate of that very actor, so that two
\* kineticists with different gates whose auras go on and off each keep their own tags.
C21_ActorIsolation ==
    [][ /\ last'.op \in {"createItem", "deleteItem"} =>
              /\ items' = items
              /\ \A v \in Users : \A k \in (Len(outbox[v]) + 1)..Len(outbox'[v]) :
                     outbox'[v][k].actor = last'.actor
        /\ last'.op \in {"created", "deleted", "rejected"} =>
              \A b \in Actors \ {last'.actor} : items'[b] = items[b]
        /\ \A b \in Actors :
              MarkerElements(items'[b]) \subseteq Range(getActorGates(items'[b]))
      ]_vars

\* both kineticists had their auras on, each with the tag of its own gate; the first
\* one's aura went off and its tag with it, and the second keeps its own
C21_Witness ==
    /\ Quiescent
    /\ ops >= 3
    /\ getActorGates(items["a1"]) = <<Fire>>
    /\ ~HasActivation(items["a1"])
    /\ Markers(items["a1"]) = <<>>
    /\ HasActivation(items["a3"])
    /\ MarkerNames(items["a3"]) = {MarkerPrefix \o Metal}

====
